---- MODULE Spec2Model ----
(***************************************************************************)
(* FilePluginController (src/src/controller/controller.ts): the controller *)
(* of a file-picker control.  It wires DOM events (change, drop, dragover, *)
(* dragleave, click) to a bound value of type File | null and keeps the    *)
(* view in step with that value.                                           *)
(*                                                                         *)
(* Strings the code inspects character by character (file names, file     *)
(* extensions) are sequences of one-character strings, so that split('.'), *)
(* pop() and toLowerCase() are computed and not assumed.  File objects     *)
(* carry an identity (id): the bound value compares by reference, and      *)
(* every FileList the browser hands to a handler holds new File objects.   *)
(***************************************************************************)
EXTENDS Integers, Sequences, FiniteSets, TLC

\* ------------------------------------------------------------------ bounds
\* File objects created during one behaviour (selections, drops, writers).
MaxFiles == 3
\* Dismissal timers pending at the same time.
MaxTimers == 2
\* Length of the file names enumerated for isFileValid alone.
MaxNameLen == 3

\* --------------------------------------------------------------- literals
WarningText == "Unaccepted file type."
DashedBorder == "1px dashed #717070"
UnsetBorder == "unset"

\* The bound value null.  Files are records of the same shape with id >= 1.
Null == [id |-> 0, name |-> <<>>]

\* File names of the controller's behaviours:  "a.p" (photo.png), "a.j"
\* (photo.jpg), "r" (README, no dot), "a.t.g" (archive.tar.gz).
Names ==
  { <<"a", ".", "p">>, <<"a", ".", "j">>, <<"r">>, <<"a", ".", "t", ".", "g">> }

\* config.filetypes: absent (undefined), empty, or a list of extensions.
NoFiletypes == [present |-> FALSE, list |-> <<>>]
FiletypeConfigs ==
  { NoFiletypes,
    [present |-> TRUE, list |-> <<>>],
    [present |-> TRUE, list |-> << <<".", "p">> >>] }

VARIABLES
  filetypes,   \* this.config.filetypes
  value,       \* this.value.rawValue: Null or a file
  view,        \* the fields of this.view the controller reads and writes
  timers,      \* number of setTimeout callbacks of showWarning still pending
  listeners,   \* which DOM listeners of the constructor are registered
  disposed,    \* the callback given to viewProps.handleDispose has run
  nextId,      \* identity of the next File object
  last         \* the handler that ran last, its input and what it did

vars == <<filetypes, value, view, timers, listeners, disposed, nextId, last>>

\* ------------------------------------------------------ String.prototype
Chars == {"a", "p", "P", "."}

toLowerCase(c) == IF c = "P" THEN "p" ELSE c

LowerSeq(s) == [i \in 1..Len(s) |-> toLowerCase(s[i])]

\* Position of the last "." in s, 0 when there is none.
LastDot(s) ==
  IF \E i \in 1..Len(s) : s[i] = "."
  THEN CHOOSE i \in 1..Len(s) :
         s[i] = "." /\ \A j \in (i + 1)..Len(s) : s[j] # "."
  ELSE 0

\* name.split('.').pop(): the text after the last ".", the whole name when
\* the name has no "." (split then returns the one-element array [name]).
SplitPop(s) == SubSeq(s, LastDot(s) + 1, Len(s))

includes(list, x) == \E i \in 1..Len(list) : list[i] = x

\* JavaScript truthiness of a string: non-empty.
Truthy(s) == Len(s) > 0

\* ------------------------------------------------------------ the browser
\* The files of a FileList built from the names ns: new File objects, with
\* the identities nextId, nextId + 1, ...
NewFiles(ns) == [i \in 1..Len(ns) |-> [id |-> nextId + i - 1, name |-> ns[i]]]

\* The names of a FileList of zero, one or two files.
FileLists == {<<>>} \cup {<<n>> : n \in Names} \cup {<<n, <<"r">> >> : n \in Names}

\* The record a handler leaves in `last`, here for a handler that takes no
\* file:  op, the handler;  kind, the kind of event onDrop was given;  file,
\* the file it validated (for onDeleteClick and a writer: the file it found
\* bound, the value written);  nfiles, the length of the FileList;  valid,
\* what isFileValid returned;  warned, it called showWarning;  changed, the
\* value emitted 'change';  threw, it ended by an exception;  shown, the
\* warning was displayed when it started;  dragged, the dragging state was
\* active when it started.
NoInput(op) ==
  [op |-> op, kind |-> "", file |-> Null, nfiles |-> 0, valid |-> TRUE,
   warned |-> FALSE, changed |-> FALSE, threw |-> FALSE,
   shown |-> view.warning.display = "block", dragged |-> view.dragging]

\* ------------------------------------------------------------------- view
\* view.changeDraggingState(active), on the view vw.
changeDraggingState(vw, active) == [vw EXCEPT !.dragging = active]

\* input.value of the file input: "" when no file is picked, else the
\* fake path of the first one.
inputValue(vw) ==
  IF Len(vw.inputFiles) = 0
  THEN <<>>
  ELSE <<"C", ":", "\\", "fakepath", "\\">> \o vw.inputFiles[1].name

\* input.value = '' empties the list of picked files.
clearInputValue(vw) == [vw EXCEPT !.inputFiles = <<>>]

\* ------------------------------------------------------------- controller
\* isFileValid without `filetypes.length > 0`: an empty list rejects.
isFileValidNoLengthCheck(file) ==
  LET fileExtension == <<".">> \o LowerSeq(SplitPop(file.name))
  IN ~( /\ filetypes.present
        /\ ~includes(filetypes.list, fileExtension)
        /\ Truthy(fileExtension) )

isFileValid(file) ==
  LET fileExtension == <<".">> \o LowerSeq(SplitPop(file.name))
  IN ~( /\ filetypes.present
        /\ Len(filetypes.list) > 0
        /\ ~includes(filetypes.list, fileExtension)
        /\ Truthy(fileExtension) )

\* showWarning that sets the text and leaves the element hidden.
showWarningTextOnly(vw) ==
  [view   |-> [vw EXCEPT !.warning.innerHTML = WarningText],
   timers |-> timers + 1]

\* showWarning that clears the pending dismissal before it schedules one.
showWarningRestartsTimer(vw) ==
  [view   |-> [vw EXCEPT !.warning = [display |-> "block",
                                      innerHTML |-> WarningText]],
   timers |-> 1]

\* showWarning, on the view vw: the view it leaves, and the pending timers
\* after its setTimeout (one more: nothing is cleared).
showWarning(vw) ==
  [view   |-> [vw EXCEPT !.warning = [display |-> "block",
                                      innerHTML |-> WarningText]],
   timers |-> timers + 1]

\* The callback showWarning gives to setTimeout.
dismissWarning(vw) ==
  [vw EXCEPT !.warning = [display |-> "none", innerHTML |-> ""]]

\* handleValueChange whose file branch leaves the warning alone.
handleValueChangeKeepsWarning(v, vw) ==
  IF v # Null
  THEN [threw |-> FALSE,
        view  |-> [vw EXCEPT !.textContent = v.name,
                             !.textIn = TRUE,
                             !.iconIn = FALSE,
                             !.deleteDisplay = "block",
                             !.border = UnsetBorder]]
  ELSE IF ~vw.textIn
  THEN [threw |-> TRUE,
        view  |-> [vw EXCEPT !.textContent = <<>>, !.iconIn = TRUE]]
  ELSE [threw |-> FALSE,
        view  |-> [vw EXCEPT !.textContent = <<>>,
                             !.iconIn = TRUE,
                             !.textIn = FALSE,
                             !.warning = [display |-> "none", innerHTML |-> ""],
                             !.deleteDisplay = "none",
                             !.border = DashedBorder]]

\* handleValueChange whose null branch leaves the border alone.
handleValueChangeKeepsBorder(v, vw) ==
  IF v # Null
  THEN [threw |-> FALSE,
        view  |-> [vw EXCEPT !.textContent = v.name,
                             !.textIn = TRUE,
                             !.iconIn = FALSE,
                             !.warning = [display |-> "none", innerHTML |-> ""],
                             !.deleteDisplay = "block",
                             !.border = UnsetBorder]]
  ELSE IF ~vw.textIn
  THEN [threw |-> TRUE,
        view  |-> [vw EXCEPT !.textContent = <<>>, !.iconIn = TRUE]]
  ELSE [threw |-> FALSE,
        view  |-> [vw EXCEPT !.textContent = <<>>,
                             !.iconIn = TRUE,
                             !.textIn = FALSE,
                             !.warning = [display |-> "none", innerHTML |-> ""],
                             !.deleteDisplay = "none"]]

\* handleValueChange whose file branch does not append the text element.
handleValueChangeNoAppend(v, vw) ==
  IF v # Null
  THEN [threw |-> FALSE,
        view  |-> [vw EXCEPT !.textContent = v.name,
                             !.iconIn = FALSE,
                             !.warning = [display |-> "none", innerHTML |-> ""],
                             !.deleteDisplay = "block",
                             !.border = UnsetBorder]]
  ELSE IF ~vw.textIn
  THEN [threw |-> TRUE,
        view  |-> [vw EXCEPT !.textContent = <<>>, !.iconIn = TRUE]]
  ELSE [threw |-> FALSE,
        view  |-> [vw EXCEPT !.textContent = <<>>,
                             !.iconIn = TRUE,
                             !.textIn = FALSE,
                             !.warning = [display |-> "none", innerHTML |-> ""],
                             !.deleteDisplay = "none",
                             !.border = DashedBorder]]

\* handleValueChange with rawValue = v, on the view vw.  removeChild of a
\* node that is no child of the container throws (NotFoundError), and the
\* statements after it do not run.
handleValueChange(v, vw) ==
  IF v # Null
  THEN [threw |-> FALSE,
        view  |-> [vw EXCEPT !.textContent = v.name,
                             !.textIn = TRUE,
                             !.iconIn = FALSE,
                             !.warning = [display |-> "none", innerHTML |-> ""],
                             !.deleteDisplay = "block",
                             !.border = UnsetBorder]]
  ELSE IF ~vw.textIn
  THEN [threw |-> TRUE,
        view  |-> [vw EXCEPT !.textContent = <<>>, !.iconIn = TRUE]]
  ELSE [threw |-> FALSE,
        view  |-> [vw EXCEPT !.textContent = <<>>,
                             !.iconIn = TRUE,
                             !.textIn = FALSE,
                             !.warning = [display |-> "none", innerHTML |-> ""],
                             !.deleteDisplay = "none",
                             !.border = DashedBorder]]

\* this.value.setRawValue(v), on the view vw: the host's Value keeps the
\* value and emits 'change' only when v differs from the current value; the
\* subscriber of 'change' is handleValueChange (constructor, line 56), as
\* long as it is subscribed.
setRawValue(v, vw) ==
  IF v = value
  THEN [value |-> value, view |-> vw, changed |-> FALSE, threw |-> FALSE]
  ELSE IF ~listeners.valueChange
  THEN [value |-> v, view |-> vw, changed |-> TRUE, threw |-> FALSE]
  ELSE LET h == handleValueChange(v, vw)
       IN [value |-> v, view |-> h.view, changed |-> TRUE, threw |-> h.threw]

\* onFile that binds the first file without the filetype check.
onFileUnchecked(ns) ==
  /\ listeners.change
  /\ nextId + Len(ns) - 1 <= MaxFiles
  /\ LET files == NewFiles(ns)
         vw    == [view EXCEPT !.inputFiles = files]
     IN IF Len(files) > 0
        THEN LET r == setRawValue(files[1], vw)
             IN /\ value' = r.value
                /\ view' = r.view
                /\ last' = [NoInput("onFile") EXCEPT
                              !.file = files[1], !.nfiles = Len(files),
                              !.changed = r.changed, !.threw = r.threw]
        ELSE /\ view' = vw
             /\ last' = NoInput("onFile")
             /\ value' = value
  /\ nextId' = nextId + Len(ns)
  /\ UNCHANGED <<filetypes, timers, listeners, disposed>>

\* The 'change' event of the input: the user has picked the files ns in the
\* file dialog (none when the dialog was cancelled), and onFile runs.
onFile(ns) ==
  /\ listeners.change
  /\ nextId + Len(ns) - 1 <= MaxFiles
  /\ LET files == NewFiles(ns)
         vw    == [view EXCEPT !.inputFiles = files]
     IN IF Len(files) > 0
        THEN LET file == files[1]
             IN IF ~isFileValid(file)
                THEN /\ timers < MaxTimers
                     /\ view' = showWarning(vw).view
                     /\ timers' = showWarning(vw).timers
                     /\ value' = value
                     /\ last' = [NoInput("onFile") EXCEPT
                                   !.file = file, !.nfiles = Len(files),
                                   !.valid = FALSE, !.warned = TRUE]
                ELSE LET r == setRawValue(file, vw)
                     IN /\ value' = r.value
                        /\ view' = r.view
                        /\ timers' = timers
                        /\ last' = [NoInput("onFile") EXCEPT
                                      !.file = file, !.nfiles = Len(files),
                                      !.changed = r.changed,
                                      !.threw = r.threw]
        ELSE /\ view' = vw
             /\ last' = NoInput("onFile")
             /\ UNCHANGED <<value, timers>>
  /\ nextId' = nextId + Len(ns)
  /\ UNCHANGED <<filetypes, listeners, disposed>>

\* onDeleteClick that does not reset the input.
resetWarningOnly(vw) ==
  [vw EXCEPT !.warning = [display |-> "none", innerHTML |-> ""]]

\* The three statements of onDeleteClick after setRawValue(null).
resetInputAndWarning(vw) ==
  [clearInputValue(vw) EXCEPT !.warning = [display |-> "none",
                                           innerHTML |-> ""]]

\* onDeleteClick without `if (file)`: it resets whatever is bound.
onDeleteClickUnguarded ==
  /\ listeners.click
  /\ LET r == setRawValue(Null, view)
     IN /\ value' = r.value
        /\ view' = IF r.threw
                   THEN r.view
                   ELSE resetInputAndWarning(r.view)
        /\ last' = [NoInput("onDeleteClick") EXCEPT
                      !.file = value, !.changed = r.changed,
                      !.threw = r.threw]
  /\ UNCHANGED <<filetypes, timers, listeners, disposed, nextId>>

onDeleteClick ==
  /\ listeners.click
  /\ IF value # Null
     THEN LET r == setRawValue(Null, view)
          IN /\ value' = r.value
             /\ view' = IF r.threw
                        THEN r.view
                        ELSE resetInputAndWarning(r.view)
             /\ last' = [NoInput("onDeleteClick") EXCEPT
                           !.file = value, !.changed = r.changed,
                           !.threw = r.threw]
     ELSE /\ last' = NoInput("onDeleteClick")
          /\ UNCHANGED <<value, view>>
  /\ UNCHANGED <<filetypes, timers, listeners, disposed, nextId>>

onDragOver ==
  /\ listeners.dragover
  /\ view' = changeDraggingState(view, TRUE)
  /\ last' = NoInput("onDragOver")
  /\ UNCHANGED <<filetypes, value, timers, listeners, disposed, nextId>>

\* onDragLeave that does not call changeDraggingState.
onDragLeaveKeepsState ==
  /\ listeners.dragleave
  /\ last' = NoInput("onDragLeave")
  /\ UNCHANGED <<filetypes, value, view, timers, listeners, disposed, nextId>>

onDragLeave ==
  /\ listeners.dragleave
  /\ view' = changeDraggingState(view, FALSE)
  /\ last' = NoInput("onDragLeave")
  /\ UNCHANGED <<filetypes, value, timers, listeners, disposed, nextId>>

\* filesArray.length >= 1: the first of several files is taken.
atLeastOneFile(files) == Len(files) >= 1

\* filesArray.length == 1: the drop carries a single file.
singleFile(files) == Len(files) = 1

\* The 'drop' event of the root element.  ev is one of
\*   [kind |-> "Event"]                 not an instance of DragEvent,
\*   [kind |-> "noDataTransfer"]        a DragEvent whose dataTransfer is null,
\*   [kind |-> "files", names |-> ns]   a DragEvent carrying the files ns.
onDrop(ev) ==
  /\ listeners.drop
  /\ LET ns    == IF ev.kind = "files" THEN ev.names ELSE <<>>
         files == NewFiles(ns)
         none  == [NoInput("onDrop") EXCEPT !.kind = ev.kind,
                                            !.nfiles = Len(files)]
     IN /\ nextId + Len(ns) - 1 <= MaxFiles
        /\ nextId' = nextId + Len(ns)
        /\ IF ev.kind = "files" /\ singleFile(files)
           THEN LET file == files[1]
                IN IF ~isFileValid(file)
                   THEN /\ timers < MaxTimers
                        /\ view' = changeDraggingState(
                                     showWarning(view).view, FALSE)
                        /\ timers' = showWarning(view).timers
                        /\ value' = value
                        /\ last' = [none EXCEPT !.file = file,
                                                !.valid = FALSE,
                                                !.warned = TRUE]
                   ELSE LET r == setRawValue(file, view)
                        IN /\ value' = r.value
                           /\ view' = IF r.threw
                                      THEN r.view
                                      ELSE changeDraggingState(r.view, FALSE)
                           /\ timers' = timers
                           /\ last' = [none EXCEPT !.file = file,
                                                   !.changed = r.changed,
                                                   !.threw = r.threw]
           ELSE /\ view' = changeDraggingState(view, FALSE)
                /\ last' = none
                /\ UNCHANGED <<value, timers>>
  /\ UNCHANGED <<filetypes, listeners, disposed>>

\* A pending callback of setTimeout runs (5000 ms after its showWarning).
\* All delays are equal, so the callbacks run in the order of their calls.
timeout ==
  /\ timers > 0
  /\ timers' = timers - 1
  /\ view' = dismissWarning(view)
  /\ last' = NoInput("timeout")
  /\ UNCHANGED <<filetypes, value, listeners, disposed, nextId>>

\* A teardown that also unsubscribes from the 'change' of the value.
removeListenersAndSubscription(ls) ==
  [ls EXCEPT !.change = FALSE, !.drop = FALSE, !.dragover = FALSE,
             !.dragleave = FALSE, !.valueChange = FALSE]

\* The listeners left after the callback given to viewProps.handleDispose.
removeListeners(ls) ==
  [ls EXCEPT !.change = FALSE, !.drop = FALSE, !.dragover = FALSE,
             !.dragleave = FALSE]

\* A disposal that also clears the pending timers.
disposeClearsTimers ==
  /\ ~disposed
  /\ disposed' = TRUE
  /\ listeners' = removeListeners(listeners)
  /\ timers' = 0
  /\ last' = NoInput("dispose")
  /\ UNCHANGED <<filetypes, value, view, nextId>>

\* The host disposes of the control: the callback runs, once.
dispose ==
  /\ ~disposed
  /\ disposed' = TRUE
  /\ listeners' = removeListeners(listeners)
  /\ last' = NoInput("dispose")
  /\ UNCHANGED <<filetypes, value, view, timers, nextId>>

\* Another holder of the bound value writes it: null, the value it already
\* has, or a File of its own (which no filetype check has seen).
externalWrite(v) ==
  /\ v.id <= MaxFiles
  /\ LET r == setRawValue(v, view)
     IN /\ value' = r.value
        /\ view' = r.view
        /\ last' = [NoInput("external") EXCEPT !.file = v,
                                               !.changed = r.changed,
                                               !.threw = r.threw]
  /\ nextId' = IF v.id = nextId THEN nextId + 1 ELSE nextId
  /\ UNCHANGED <<filetypes, timers, listeners, disposed>>

\* ---------------------------------------------------------- specification
\* The view as its constructor leaves it: nothing picked, the icon in the
\* container, the warning and the delete button hidden, no inline border.
InitialView ==
  [inputFiles    |-> <<>>,
   textContent   |-> <<>>,
   textIn        |-> FALSE,
   iconIn        |-> TRUE,
   warning       |-> [display |-> "none", innerHTML |-> ""],
   deleteDisplay |-> "none",
   border        |-> "",
   dragging      |-> FALSE]

\* The listeners the constructor registers: the five DOM listeners, and
\* valueChange, the subscription to the 'change' of the bound value.
InitialListeners ==
  [change |-> TRUE, drop |-> TRUE, dragover |-> TRUE, dragleave |-> TRUE,
   click |-> TRUE, valueChange |-> TRUE]

\* After the constructor: any of the configurations, no file bound yet (the
\* constructor does not call handleValueChange, so the view is the one its
\* own constructor built), every listener registered, no timer pending.
Init ==
  /\ filetypes \in FiletypeConfigs
  /\ value = Null
  /\ view = InitialView
  /\ timers = 0
  /\ listeners = InitialListeners
  /\ disposed = FALSE
  /\ nextId = 1
  /\ last = NoInput("constructor")

DropEvents ==
  {[kind |-> "Event"], [kind |-> "noDataTransfer"]}
    \cup {[kind |-> "files", names |-> ns] : ns \in FileLists}

Next ==
  \/ \E ns \in FileLists : onFile(ns)
  \/ \E ev \in DropEvents : onDrop(ev)
  \/ onDragOver
  \/ onDragLeave
  \/ onDeleteClick
  \/ timeout
  \/ dispose
  \/ \E v \in {Null, value} \cup {[id |-> nextId, name |-> n] : n \in Names} :
       externalWrite(v)

Spec == Init /\ [][Next]_vars

\* The event loop runs every callback of setTimeout whose delay has passed:
\* a pending dismissal is not postponed for ever.
FairSpec == Spec /\ WF_vars(timeout)

\* ------------------------------------------- isFileValid taken on its own
\* Names of at most n characters.
NamesUpTo(n) == UNION {[1..k -> Chars] : k \in 0..n}

\* Extensions an allow-list may hold: ".", ".a", ".p", ".P".
ListEntries == {<<".">>} \cup {<<".", c>> : c \in Chars \ {"."}}

\* Every config.filetypes of at most two entries, and its absence.
AllFiletypeConfigs ==
  {NoFiletypes}
    \cup {[present |-> TRUE, list |-> l] :
            l \in UNION {[1..k -> ListEntries] : k \in 0..2}}

InitValid ==
  /\ filetypes \in AllFiletypeConfigs
  /\ value = Null
  /\ view = InitialView
  /\ timers = 0
  /\ listeners = InitialListeners
  /\ disposed = FALSE
  /\ nextId = 1
  /\ last = NoInput("constructor")

\* isFileValid is applied to a file named name.
callIsFileValid(name) ==
  /\ LET file == [id |-> 1, name |-> name]
     IN last' = [NoInput("isFileValid") EXCEPT !.file = file,
                                               !.nfiles = 1,
                                               !.valid = isFileValid(file)]
  /\ UNCHANGED <<filetypes, value, view, timers, listeners, disposed, nextId>>

NextValid == \E name \in NamesUpTo(MaxNameLen) : callIsFileValid(name)

SpecValid == InitValid /\ [][NextValid]_vars

\* ================================================================= claims
\* The handlers that validate a file, and the file they were given.
FileHandlers == {"onFile", "onDrop"}
GotFile == last.op \in FileHandlers /\ last.file # Null

\* A name has an extension when it has a ".": the extension is the
\* lowercased text after the last ".", prefixed with ".".
HasExtension(name) == LastDot(name) > 0
Extension(name) ==
  <<".">> \o LowerSeq(SubSeq(name, LastDot(name) + 1, Len(name)))

\* C1: isFileValid(f) is false exactly when the allow-list is non-empty, f
\* has an extension and that extension is not in the list.
C1_RejectsIffListedOut ==
  last.op = "isFileValid" =>
    ( ~last.valid <=>
        /\ filetypes.present
        /\ Len(filetypes.list) > 0
        /\ HasExtension(last.file.name)
        /\ ~includes(filetypes.list, Extension(last.file.name)) )

\* C2: a file whose name has no "." is valid under every allow-list, so
\* selecting or dropping it binds it and shows no warning.
C2_NoDotIsAccepted ==
  (GotFile /\ ~HasExtension(last.file.name)) =>
    /\ last.valid
    /\ value = last.file
    /\ view.warning.display = "none"

\* C3: a handler given a file that is invalid under the allow-list leaves
\* the bound value as it was, raises nothing and shows the warning with its
\* fixed text.
C3_InvalidFileOnlyWarns ==
  [][ (last'.op \in FileHandlers /\ last'.file # Null
         /\ ~isFileValid(last'.file))
      => /\ value' = value
         /\ ~last'.threw
         /\ view'.warning = [display |-> "block", innerHTML |-> WarningText]
    ]_vars

\* C3 witness: a drop of an invalid file while a file is bound.
C3_Witness ==
  /\ last.op = "onDrop"
  /\ last.file # Null
  /\ ~last.valid
  /\ value # Null
  /\ view.warning.innerHTML = WarningText

\* C4: after a handler was given a valid file, the bound value is that
\* file, the warning is hidden and the delete button is visible.
C4_ValidFileIsBound ==
  (GotFile /\ isFileValid(last.file)) =>
    /\ value = last.file
    /\ view.warning.display = "none"
    /\ view.deleteDisplay = "block"

\* C4 witness: filetypes ['.png']; photo.png is selected while the warning
\* of an earlier invalid selection is on display.
C4_Witness ==
  /\ filetypes.list = << <<".", "p">> >>
  /\ last.op = "onFile"
  /\ last.file.name = <<"a", ".", "p">>
  /\ last.shown
  /\ value = last.file

\* The view of the table of handleValueChange, for the value v.
ViewMatches(v, vw) ==
  IF v # Null
  THEN /\ vw.textContent = v.name
       /\ vw.textIn
       /\ ~vw.iconIn
       /\ vw.warning.display = "none"
       /\ vw.deleteDisplay = "block"
       /\ vw.border = "unset"
  ELSE /\ vw.textContent = <<>>
       /\ vw.iconIn
       /\ ~vw.textIn
       /\ vw.warning.display = "none"
       /\ vw.deleteDisplay = "none"
       /\ vw.border = "1px dashed #717070"

C7_WrongCountDropIsInert ==
  [][ (last'.op = "onDrop" /\ last'.kind = "files" /\ last'.nfiles # 1)
      => /\ value' = value
         /\ view'.warning = view.warning
         /\ timers' = timers
         /\ ~view'.dragging
    ]_vars

\* C7 witness: two files were dropped during a drag, over a bound file.
C7_Witness ==
  /\ last.op = "onDrop"
  /\ last.nfiles = 2
  /\ value # Null
  /\ ~view.dragging

\* The DOM listeners the constructor adds.
DomListeners == {"change", "drop", "dragover", "dragleave", "click"}

\* C8: once the teardown callback has run, none of the DOM listeners of
\* the constructor is still registered.
C8_TeardownRemovesAll ==
  disposed => \A e \in DomListeners : ~listeners[e]

\* C9: with no allow-list, or an empty one, every selected file and every
\* single dropped file is bound, and the warning is never shown.
C9_NoListAcceptsAll ==
  (~filetypes.present \/ Len(filetypes.list) = 0) =>
    /\ view.warning.display = "none"
    /\ view.warning.innerHTML = ""
    /\ GotFile => value = last.file

\* C9 witness: no filetypes; archive.tar.gz is selected and bound.
C9_Witness ==
  /\ ~filetypes.present
  /\ last.op = "onFile"
  /\ last.file.name = <<"a", ".", "t", ".", "g">>
  /\ value = last.file

\* C10: every showWarning adds a dismissal of its own, nothing but a
\* dismissal that runs removes one, and a dismissal that runs hides the
\* warning whichever call displayed it.
C10_DismissalsAreIndependent ==
  [][ /\ last'.warned => timers' = timers + 1
      /\ last'.op # "timeout" => timers' >= timers
      /\ last'.op = "timeout" =>
           (timers' = timers - 1 /\ view'.warning.display = "none")
    ]_vars

\* C10 witness: a dismissal has hidden a displayed warning while the
\* dismissal of the call that displayed it is still pending.
C10_Witness ==
  /\ last.op = "timeout"
  /\ last.shown
  /\ timers > 0
  /\ view.warning.display = "none"

\* C11: every showWarning is followed, sooner or later, by a state in which
\* the warning is empty and hidden, torn down or not.
C11_WarningIsDismissed ==
  last.warned ~> (view.warning = [display |-> "none", innerHTML |-> ""])

\* C11 witness: a dismissal has hidden a displayed warning after the
\* teardown.
C11_Witness ==
  /\ disposed
  /\ last.op = "timeout"
  /\ last.shown
  /\ view.warning = [display |-> "none", innerHTML |-> ""]

\* C12: the subscription to the value's 'change' outlives the teardown: a
\* change of the bound value after it still runs handleValueChange, and
\* the view follows.
C12_SubscriptionOutlivesTeardown ==
  [][ (disposed /\ value' # value)
      => /\ listeners'.valueChange
         /\ ViewMatches(value', view')
    ]_vars

\* C12 witness: after the teardown another writer binds a file and the
\* view shows its name.
C12_Witness ==
  /\ disposed
  /\ last.op = "external"
  /\ last.changed
  /\ value # Null
  /\ view.textContent = value.name
  /\ view.deleteDisplay = "block"

\* The handlers of the drag events.
DragHandlers == {"onDragOver", "onDragLeave", "onDrop"}

\* C13: onDragOver makes the dragging state active, onDragLeave and onDrop
\* (whatever it was given) make it inactive, no other step changes it, and
\* onDragOver and onDragLeave leave the bound value alone: the state is
\* active exactly when the last drag event was a dragover.
C13_DraggingFollowsLastDragEvent ==
  [][ /\ last'.op = "onDragOver" => view'.dragging
      /\ last'.op \in {"onDragLeave", "onDrop"} => ~view'.dragging
      /\ last'.op \notin DragHandlers => view'.dragging = view.dragging
      /\ last'.op \in {"onDragOver", "onDragLeave"} => value' = value
    ]_vars

\* C13 witness: a 'drop' that is no DragEvent ends an active dragging
\* state.
C13_Witness ==
  /\ last.op = "onDrop"
  /\ last.kind = "Event"
  /\ last.dragged
  /\ ~view.dragging

\* C14: onDeleteClick with no file bound changes nothing: not the value,
\* not the input, not the warning.
C14_DeleteOfNothingIsNoOp ==
  [][ (last'.op = "onDeleteClick" /\ value = Null)
      => /\ value' = Null
         /\ inputValue(view') = inputValue(view)
         /\ view'.warning = view.warning
         /\ view' = view
         /\ timers' = timers
    ]_vars

\* C14 witness: the delete button was clicked with nothing bound, a file
\* picked in the input and the warning on display; the warning stays.
C14_Witness ==
  /\ last.op = "onDeleteClick"
  /\ last.file = Null
  /\ value = Null
  /\ last.shown
  /\ view.warning.display = "block"
  /\ Len(view.inputFiles) > 0

\* C15: whenever a handler of the controller or a timer changes the bound
\* value, the new value is null, written by onDeleteClick, or the single
\* file the handler was given, which isFileValid accepts.
C15_ControllerWritesOnlyValidFiles ==
  [][ (value' # value /\ last'.op # "external")
      => \/ value' = Null /\ last'.op = "onDeleteClick"
         \/ /\ value' # Null
            /\ last'.op \in FileHandlers
            /\ value' = last'.file
            /\ isFileValid(value')
    ]_vars

\* C15 witness: under a non-empty allow-list a dropped file was bound.
C15_Witness ==
  /\ Len(filetypes.list) > 0
  /\ last.op = "onDrop"
  /\ last.changed
  /\ value = last.file
  /\ value # Null

====
